---- MODULE Spec2Model ----
(***************************************************************************)
(* MicroMart e-commerce backend (src/server.py): the cart, order, payment  *)
(* and catalog-seed handlers over the document store.                      *)
(*                                                                         *)
(* Every handler is an async function; control can pass to another request *)
(* only at an `await`, and every await of the handlers modelled here is    *)
(* one call to the store.  One action of the model is therefore one store  *)
(* call together with the handler code that runs up to the next await.     *)
(* The store executes each call atomically.                                *)
(*                                                                         *)
(* Collections are sequences of documents in insertion order; find_one,    *)
(* replace_one, update_one and delete_one act on the first document that   *)
(* matches the filter.  Prices and totals are kept in cents (integers):    *)
(* the handlers only multiply a price by an integer quantity, add the      *)
(* products up in list order and copy totals.  uuid4 identifiers are       *)
(* modelled by a counter (fresh and unique).  Authentication               *)
(* (get_current_user) is taken as already resolved to a user id.           *)
(***************************************************************************)
EXTENDS Integers, Sequences, FiniteSets, Bags, TLC

VARIABLES
    products,   \* db.products : sequence of [id, name, price]
    created,    \* number of product documents ever inserted (uuid source)
    carts,      \* db.carts    : sequence of [user_id, items, total]
    orders,     \* db.orders   : sequence of [id, user_id, items, total, status, shipping_address]
    payments,   \* db.payments : sequence of [order_id, amount, status, payment_method]
    req,        \* the requests in flight: a bag of handler frames (locals and position;
                \* `after` and `looked` are history: what get_cart and remove_from_cart
                \* saw of checkedOut when they read the cart, and the product each turn
                \* of create_order's loop found)
    last,       \* the response most recently returned to a client
    checkedOut, \* history: user -> a create_order returned and no add_to_cart was issued since
    remaining   \* number of requests the clients will still issue

vars == <<products, created, carts, orders, payments, req, last, checkedOut, remaining>>

stores == <<products, created, carts, orders, payments>>

-----------------------------------------------------------------------------
(* Bounds and input sets *)

\* requests issued in a run of the cart and order handlers
MaxRequests == 4

\* requests issued in a run of the whole service
MaxServiceRequests == 3

Users == {"u1", "u2"}

MaxInFlight == 2

ProductIdInputs == {1, 2}

QuantityInputs == {-1, 2}

AddressInputs == {"123 Main St"}

ProductInputs == {[name |-> "P1", price |-> 1000], [name |-> "P2", price |-> 500]}

PriceInputs == {1200}

OrderIdInputs == {1, 2}

-----------------------------------------------------------------------------
(* Documents *)

\* sample_products, name and price (cents) of each entry
sample_products ==
    << [name |-> "Premium Dental Care Set",      price |-> 2999],
       [name |-> "Professional Toothpaste Duo",  price |-> 1999],
       [name |-> "Lifestyle Essentials Bundle",  price |-> 8999],
       [name |-> "Complete Oral Health Kit",     price |-> 4599],
       [name |-> "Glossier Beauty Collection",   price |-> 12500],
       [name |-> "Nike Air Performance Sneaker", price |-> 15999],
       [name |-> "Curology Skincare System",     price |-> 7999],
       [name |-> "Minimalist Bottle Collection", price |-> 3999] >>

\* Product(**data): a fresh id
Product(id, data) == [id |-> id, name |-> data.name, price |-> data.price]

CartItem(product_id, quantity, price) ==
    [product_id |-> product_id, quantity |-> quantity, price |-> price]

\* Cart(user_id=...): no items, total 0.0
Cart(user_id) == [user_id |-> user_id, items |-> <<>>, total |-> 0]

OrderItem(product_id, product_name, quantity, price) ==
    [product_id |-> product_id, product_name |-> product_name,
     quantity |-> quantity, price |-> price]

\* Order(...): status defaults to "pending"
Order(id, user_id, items, total, shipping_address) ==
    [id |-> id, user_id |-> user_id, items |-> items, total |-> total,
     status |-> "pending", shipping_address |-> shipping_address]

\* a payment built without the status argument: the field's default applies
Payment_DefaultStatus(order_id, amount, status) ==
    [order_id |-> order_id, amount |-> amount, status |-> "pending",
     payment_method |-> "mock"]

\* Payment(order_id, amount, status): payment_method defaults to "mock"
Payment(order_id, amount, status) ==
    [order_id |-> order_id, amount |-> amount, status |-> status,
     payment_method |-> "mock"]

-----------------------------------------------------------------------------
(* Store calls.  A find_one result is <<>> (None) or <<document>>. *)

Min(S) == CHOOSE x \in S : \A y \in S : x <= y

RECURSIVE SeqSum(_)
SeqSum(s) == IF s = <<>> THEN 0 ELSE Head(s) + SeqSum(Tail(s))

RemoveAt(s, i) == SubSeq(s, 1, i - 1) \o SubSeq(s, i + 1, Len(s))

\* a lookup whose filter is lost: the first product, whatever its id
FindProduct_Any(ps, product_id) ==
    IF ps = <<>> THEN <<>> ELSE <<ps[1]>>

\* db.products.find_one({"id": product_id})
FindProduct(ps, product_id) ==
    LET I == {i \in DOMAIN ps : ps[i].id = product_id}
    IN  IF I = {} THEN <<>> ELSE <<ps[Min(I)]>>

\* db.carts.find_one({"user_id": user_id})
FindCart(cs, user_id) ==
    LET I == {i \in DOMAIN cs : cs[i].user_id = user_id}
    IN  IF I = {} THEN <<>> ELSE <<cs[Min(I)]>>

\* a replace_one that never inserts
ReplaceCart_NoUpsert(cs, user_id, doc, upsert) ==
    LET I == {i \in DOMAIN cs : cs[i].user_id = user_id}
    IN  IF I # {} THEN [cs EXCEPT ![Min(I)] = doc] ELSE cs

\* db.carts.replace_one({"user_id": user_id}, doc, upsert=upsert)
ReplaceCart(cs, user_id, doc, upsert) ==
    LET I == {i \in DOMAIN cs : cs[i].user_id = user_id}
    IN  IF I # {} THEN [cs EXCEPT ![Min(I)] = doc]
        ELSE IF upsert THEN Append(cs, doc)
        ELSE cs

\* db.carts.delete_one({"user_id": user_id})
DeleteCart(cs, user_id) ==
    LET I == {i \in DOMAIN cs : cs[i].user_id = user_id}
    IN  IF I = {} THEN cs ELSE RemoveAt(cs, Min(I))

\* a lookup by id alone
FindOrder_AnyOwner(os, order_id, user_id) ==
    LET I == {i \in DOMAIN os : os[i].id = order_id}
    IN  IF I = {} THEN <<>> ELSE <<os[Min(I)]>>

\* db.orders.find_one({"id": order_id, "user_id": user_id})
FindOrder(os, order_id, user_id) ==
    LET I == {i \in DOMAIN os : os[i].id = order_id /\ os[i].user_id = user_id}
    IN  IF I = {} THEN <<>> ELSE <<os[Min(I)]>>

\* the length given to to_list: the most documents a GET /orders returns
ToListLength == 100

\* db.orders.find({"user_id": user_id}).to_list(100): the user's orders in
\* store order, the first 100 of them at most
FindOrders(os, user_id) ==
    LET found == SelectSeq(os, LAMBDA o : o.user_id = user_id)
    IN  IF Len(found) <= ToListLength THEN found
        ELSE SubSeq(found, 1, ToListLength)

\* an update that writes the payment's status into the order
SetPaid_Completed(os, order_id) ==
    LET I == {i \in DOMAIN os : os[i].id = order_id}
    IN  IF I = {} THEN os ELSE [os EXCEPT ![Min(I)].status = "completed"]

\* a replace_one in place of the update_one: the fields not given are lost
SetPaid_Replace(os, order_id) ==
    LET I == {i \in DOMAIN os : os[i].id = order_id}
    IN  IF I = {} THEN os
        ELSE [os EXCEPT ![Min(I)] =
                [id |-> order_id, user_id |-> @.user_id, items |-> <<>>, total |-> 0,
                 status |-> "paid", shipping_address |-> ""]]

\* db.orders.update_one({"id": order_id}, {"$set": {"status": "paid"}})
SetPaid(os, order_id) ==
    LET I == {i \in DOMAIN os : os[i].id = order_id}
    IN  IF I = {} THEN os ELSE [os EXCEPT ![Min(I)].status = "paid"]

-----------------------------------------------------------------------------
(* Handler code between the store calls *)

\* sum(item.price * item.quantity for item in cart.items)
CartTotal(items) ==
    SeqSum([i \in DOMAIN items |-> items[i].price * items[i].quantity])

\* add_to_cart: get or create the cart from the find_one result
GetOrCreate(cart_data, user_id) ==
    IF cart_data = <<>> THEN Cart(user_id) ELSE cart_data[1]

\* a merge that never looks for an existing line item
MergeItem_AlwaysAppend(items, product_id, quantity, price) ==
    Append(items, CartItem(product_id, quantity, price))

\* a merge that also takes the product's current price
MergeItem_RefreshPrice(items, product_id, quantity, price) ==
    LET I == {i \in DOMAIN items : items[i].product_id = product_id}
    IN  IF I # {}
        THEN [items EXCEPT ![Min(I)].quantity = @ + quantity, ![Min(I)].price = price]
        ELSE Append(items, CartItem(product_id, quantity, price))

\* add_to_cart: merge the requested item into the cart's items
MergeItem(items, product_id, quantity, price) ==
    LET I == {i \in DOMAIN items : items[i].product_id = product_id}
    IN  IF I # {}
        THEN [items EXCEPT ![Min(I)].quantity = @ + quantity]
        ELSE Append(items, CartItem(product_id, quantity, price))

\* add_to_cart: the cart as it is written back
AddToCartUpdate(cart, product_id, quantity, price) ==
    LET items == MergeItem(cart.items, product_id, quantity, price)
    IN  [cart EXCEPT !.items = items, !.total = CartTotal(items)]

\* a removal whose filter keeps the line items it should drop
RemoveFromCartUpdate_KeepOnly(cart, product_id) ==
    LET items == SelectSeq(cart.items, LAMBDA it : it.product_id = product_id)
    IN  [cart EXCEPT !.items = items, !.total = CartTotal(items)]

\* a removal that keeps the total it read
RemoveFromCartUpdate_StaleTotal(cart, product_id) ==
    [cart EXCEPT !.items = SelectSeq(cart.items, LAMBDA it : it.product_id # product_id)]

\* remove_from_cart: the cart as it is written back
RemoveFromCartUpdate(cart, product_id) ==
    LET items == SelectSeq(cart.items, LAMBDA it : it.product_id # product_id)
    IN  [cart EXCEPT !.items = items, !.total = CartTotal(items)]

\* a guard that only looks for a missing cart
CartIsEmpty_MissingOnly(cart_data) == cart_data = <<>>

\* create_order: `not cart_data or not cart_data["items"]`
CartIsEmpty(cart_data) == cart_data = <<>> \/ cart_data[1].items = <<>>

\* a loop that assigns the list in place of appending to it
OrderItemsStep_Overwrite(order_items, cart_item, product) ==
    IF product # <<>>
    THEN << OrderItem(cart_item.product_id, product[1].name,
                      cart_item.quantity, cart_item.price) >>
    ELSE order_items

\* create_order: one turn of the loop over cart.items
OrderItemsStep(order_items, cart_item, product) ==
    IF product # <<>>
    THEN Append(order_items,
                OrderItem(cart_item.product_id, product[1].name,
                          cart_item.quantity, cart_item.price))
    ELSE order_items

\* an order whose total is added up again from its own items
BuildOrder_Recompute(id, user_id, order_items, cart, shipping_address) ==
    Order(id, user_id, order_items, CartTotal(order_items), shipping_address)

\* create_order: the order built from the cart and the collected items
BuildOrder(id, user_id, order_items, cart, shipping_address) ==
    Order(id, user_id, order_items, cart.total, shipping_address)

-----------------------------------------------------------------------------
(* Handler frames and responses *)

Idle ==
    [op |-> "idle", pc |-> "idle", user |-> "none", product_id |-> 0,
     quantity |-> 0, order_id |-> 0, shipping_address |-> "",
     product |-> <<>>, cart |-> <<>>, order_items |-> <<>>, idx |-> 0,
     order |-> <<>>, payment |-> <<>>, after |-> FALSE,
     looked |-> <<>>]

Response(op, user, status, detail, body, after) ==
    [op |-> op, user |-> user, status |-> status, detail |-> detail,
     body |-> body, after |-> after]

\* the server accepts a request that will have to wait on the store
CanAccept == BagCardinality(req) < MaxInFlight

Start(frame) == req (+) SetToBag({frame})

Step(f, frame) == (req (-) SetToBag({f})) (+) SetToBag({frame})

Finish(f) == req (-) SetToBag({f})

InFlight == BagToSet(req)

CanIssue == remaining > 0

\* The store outlives the server process: the catalog found at start-up is
\* empty, or holds the products two earlier POST /products calls created.
InitialCatalogs ==
    { <<>>,
      << Product(1, [name |-> "P1", price |-> 1000]),
         Product(2, [name |-> "P2", price |-> 500]) >> }

InitWith(n) ==
    /\ products \in InitialCatalogs
    /\ created = Len(products)
    /\ carts = <<>>
    /\ orders = <<>>
    /\ payments = <<>>
    /\ req = EmptyBag
    /\ last = Response("none", "none", 0, "", <<>>, FALSE)
    /\ checkedOut = [u \in Users |-> FALSE]
    /\ remaining = n

Init == InitWith(MaxServiceRequests)

InitCart == InitWith(MaxRequests)


Frame(op, pc, user) == [Idle EXCEPT !.op = op, !.pc = pc, !.user = user]

At(f, op, pc) == f.op = op /\ f.pc = pc

-----------------------------------------------------------------------------
(* GET /cart *)

get_cart_find(u) ==
    /\ CanIssue
    /\ remaining' = remaining - 1
    /\ LET cart_data == FindCart(carts, u)
       IN  IF cart_data # <<>>
           THEN /\ last' = Response("get_cart", u, 200, "", cart_data, checkedOut[u])
                /\ UNCHANGED req
           ELSE /\ CanAccept
                /\ req' = Start(
                                   [Frame("get_cart", "gc_insert", u)
                                      EXCEPT !.after = checkedOut[u]])
                /\ UNCHANGED last
    /\ UNCHANGED <<stores, checkedOut>>

get_cart_insert(f) ==
    /\ At(f, "get_cart", "gc_insert")
    /\ LET cart == Cart(f.user)
       IN  /\ carts' = Append(carts, cart)
           /\ last' = Response("get_cart", f.user, 200, "", <<cart>>, f.after)
    /\ req' = Finish(f)
    /\ UNCHANGED <<products, created, orders, payments, checkedOut, remaining>>

-----------------------------------------------------------------------------
(* POST /cart/add *)

add_to_cart_find_product(u, product_id, quantity) ==
    /\ CanIssue
    /\ remaining' = remaining - 1
    /\ checkedOut' = [checkedOut EXCEPT ![u] = FALSE]
    /\ LET product == FindProduct(products, product_id)
       IN  IF product = <<>>
           THEN /\ last' = Response("add_to_cart", u, 404, "Product not found", <<>>, FALSE)
                /\ UNCHANGED req
           ELSE /\ CanAccept
                /\ req' = Start(
                                   [Frame("add_to_cart", "add_find_cart", u)
                                      EXCEPT !.product_id = product_id,
                                             !.quantity = quantity,
                                             !.product = product])
                /\ UNCHANGED last
    /\ UNCHANGED stores

add_to_cart_find_cart(f) ==
    /\ At(f, "add_to_cart", "add_find_cart")
    /\ LET cart_data == FindCart(carts, f.user)
           cart == AddToCartUpdate(GetOrCreate(cart_data, f.user),
                                   f.product_id, f.quantity,
                                   f.product[1].price)
       IN  req' = Step(f, [f EXCEPT !.pc = "add_replace", !.cart = <<cart>>])
    /\ UNCHANGED <<stores, last, checkedOut, remaining>>

add_to_cart_replace(f) ==
    /\ At(f, "add_to_cart", "add_replace")
    /\ carts' = ReplaceCart(carts, f.user, f.cart[1], TRUE)
    /\ last' = Response("add_to_cart", f.user, 200, "Item added to cart", <<>>, FALSE)
    /\ req' = Finish(f)
    /\ UNCHANGED <<products, created, orders, payments, checkedOut, remaining>>

-----------------------------------------------------------------------------
(* DELETE /cart/remove/{product_id} *)

remove_from_cart_find(u, product_id) ==
    /\ CanIssue
    /\ remaining' = remaining - 1
    /\ LET cart_data == FindCart(carts, u)
       IN  IF cart_data = <<>>
           THEN /\ last' = Response("remove_from_cart", u, 404, "Cart not found", <<>>, FALSE)
                /\ UNCHANGED req
           ELSE /\ CanAccept
                /\ req' = Start(
                                   [Frame("remove_from_cart", "rm_replace", u)
                                      EXCEPT !.product_id = product_id,
                                             !.cart = <<RemoveFromCartUpdate(cart_data[1], product_id)>>,
                                             !.after = checkedOut[u]])
                /\ UNCHANGED last
    /\ UNCHANGED <<stores, checkedOut>>

remove_from_cart_replace(f) ==
    /\ At(f, "remove_from_cart", "rm_replace")
    /\ carts' = ReplaceCart(carts, f.user, f.cart[1], FALSE)
    /\ last' = Response("remove_from_cart", f.user, 200, "Item removed from cart", <<>>, FALSE)
    /\ req' = Finish(f)
    /\ UNCHANGED <<products, created, orders, payments, checkedOut, remaining>>

-----------------------------------------------------------------------------
(* POST /orders *)

create_order_find(u, shipping_address) ==
    /\ CanIssue
    /\ remaining' = remaining - 1
    /\ LET cart_data == FindCart(carts, u)
       IN  IF CartIsEmpty(cart_data)
           THEN /\ last' = Response("create_order", u, 400, "Cart is empty", <<>>, FALSE)
                /\ UNCHANGED req
           ELSE /\ CanAccept
                /\ req' = Start(
                                   [Frame("create_order", "co_lookup", u)
                                      EXCEPT !.shipping_address = shipping_address,
                                             !.cart = cart_data,
                                             !.idx = 1])
                /\ UNCHANGED last
    /\ UNCHANGED <<stores, checkedOut>>

create_order_lookup(f) ==
    /\ At(f, "create_order", "co_lookup")
    /\ LET cart_item == f.cart[1].items[f.idx]
           product == FindProduct(products, cart_item.product_id)
       IN  req' = Step(f, [f EXCEPT
                     !.order_items = OrderItemsStep(@, cart_item, product),
                     !.looked = Append(@, product),
                     !.idx = @ + 1,
                     !.pc = IF f.idx = Len(f.cart[1].items)
                            THEN "co_insert" ELSE "co_lookup"])
    /\ UNCHANGED <<stores, last, checkedOut, remaining>>

create_order_insert(f) ==
    /\ At(f, "create_order", "co_insert")
    /\ LET order == BuildOrder(Len(orders) + 1, f.user, f.order_items,
                               f.cart[1], f.shipping_address)
       IN  /\ orders' = Append(orders, order)
           /\ req' = Step(f, [f EXCEPT !.pc = "co_delete", !.order = <<order>>])
    /\ UNCHANGED <<products, created, carts, payments, last, checkedOut, remaining>>

create_order_delete(f) ==
    /\ At(f, "create_order", "co_delete")
    /\ carts' = DeleteCart(carts, f.user)
    /\ last' = Response("create_order", f.user, 200, "", f.order, FALSE)
    /\ checkedOut' = [checkedOut EXCEPT ![f.user] = TRUE]
    /\ req' = Finish(f)
    /\ UNCHANGED <<products, created, orders, payments, remaining>>

-----------------------------------------------------------------------------
(* GET /orders, GET /orders/{order_id} *)

get_orders(u) ==
    /\ CanIssue
    /\ remaining' = remaining - 1
    /\ last' = Response("get_orders", u, 200, "", FindOrders(orders, u), FALSE)
    /\ UNCHANGED <<stores, req, checkedOut>>

get_order(u, order_id) ==
    /\ CanIssue
    /\ remaining' = remaining - 1
    /\ LET order == FindOrder(orders, order_id, u)
       IN  last' = IF order = <<>>
                   THEN Response("get_order", u, 404, "Order not found", <<>>, FALSE)
                   ELSE Response("get_order", u, 200, "", order, FALSE)
    /\ UNCHANGED <<stores, req, checkedOut>>

-----------------------------------------------------------------------------
(* POST /payments/{order_id} *)

process_payment_find(u, order_id) ==
    /\ CanIssue
    /\ remaining' = remaining - 1
    /\ LET order == FindOrder(orders, order_id, u)
       IN  IF order = <<>>
           THEN /\ last' = Response("process_payment", u, 404, "Order not found", <<>>, FALSE)
                /\ UNCHANGED req
           ELSE /\ CanAccept
                /\ req' = Start(
                                   [Frame("process_payment", "pay_insert", u)
                                      EXCEPT !.order_id = order_id,
                                             !.order = order])
                /\ UNCHANGED last
    /\ UNCHANGED <<stores, checkedOut>>

\* a payment that is built and returned but never saved
process_payment_insert_Unsaved(f) ==
    /\ At(f, "process_payment", "pay_insert")
    /\ LET payment == Payment(f.order_id, f.order[1].total, "completed")
       IN  req' = Step(f, [f EXCEPT !.pc = "pay_update", !.payment = <<payment>>])
    /\ UNCHANGED <<stores, last, checkedOut, remaining>>

process_payment_insert(f) ==
    /\ At(f, "process_payment", "pay_insert")
    /\ LET payment == Payment(f.order_id, f.order[1].total, "completed")
       IN  /\ payments' = Append(payments, payment)
           /\ req' = Step(f, [f EXCEPT !.pc = "pay_update", !.payment = <<payment>>])
    /\ UNCHANGED <<products, created, carts, orders, last, checkedOut, remaining>>

process_payment_update(f) ==
    /\ At(f, "process_payment", "pay_update")
    /\ orders' = SetPaid(orders, f.order_id)
    /\ last' = Response("process_payment", f.user, 200, "", f.payment, FALSE)
    /\ req' = Finish(f)
    /\ UNCHANGED <<products, created, carts, payments, checkedOut, remaining>>

-----------------------------------------------------------------------------
(* POST /admin/init-products, POST /products *)

initialize_sample_products_count ==
    /\ CanIssue
    /\ remaining' = remaining - 1
    /\ LET existing_products == Len(products)
       IN  IF existing_products > 0
           THEN /\ last' = Response("initialize_sample_products", "none", 200,
                                    "Products already initialized", <<>>, FALSE)
                /\ UNCHANGED req
           ELSE /\ CanAccept
                /\ req' = Start(
                                   Frame("initialize_sample_products", "init_insert", "none"))
                /\ UNCHANGED last
    /\ UNCHANGED <<stores, checkedOut>>

initialize_sample_products_insert(f) ==
    /\ At(f, "initialize_sample_products", "init_insert")
    /\ products' = products \o
                     [i \in DOMAIN sample_products |-> Product(created + i, sample_products[i])]
    /\ created' = created + Len(sample_products)
    /\ last' = Response("initialize_sample_products", "none", 200,
                        "Initialized 8 sample products", <<>>, FALSE)
    /\ req' = Finish(f)
    /\ UNCHANGED <<carts, orders, payments, checkedOut, remaining>>

create_product(product_data) ==
    /\ CanIssue
    /\ remaining' = remaining - 1
    /\ LET product == Product(created + 1, product_data)
       IN  /\ products' = Append(products, product)
           /\ last' = Response("create_product", "none", 200, "", <<product>>, FALSE)
    /\ created' = created + 1
    /\ UNCHANGED <<carts, orders, payments, req, checkedOut>>

-----------------------------------------------------------------------------
(* The service *)

CartNext ==
    \/ \E u \in Users : get_cart_find(u)
    \/ \E f \in InFlight : get_cart_insert(f)
    \/ \E u \in Users, p \in ProductIdInputs, q \in QuantityInputs :
          add_to_cart_find_product(u, p, q)
    \/ \E f \in InFlight : add_to_cart_find_cart(f)
    \/ \E f \in InFlight : add_to_cart_replace(f)
    \/ \E u \in Users, p \in ProductIdInputs : remove_from_cart_find(u, p)
    \/ \E f \in InFlight : remove_from_cart_replace(f)
    \/ \E u \in Users, a \in AddressInputs : create_order_find(u, a)
    \/ \E f \in InFlight : create_order_lookup(f)
    \/ \E f \in InFlight : create_order_insert(f)
    \/ \E f \in InFlight : create_order_delete(f)

OrderNext ==
    \/ \E u \in Users : get_orders(u)
    \/ \E u \in Users, o \in OrderIdInputs : get_order(u, o)
    \/ \E u \in Users, o \in OrderIdInputs : process_payment_find(u, o)
    \/ \E f \in InFlight : process_payment_insert(f)
    \/ \E f \in InFlight : process_payment_update(f)

CatalogNext ==
    \/ initialize_sample_products_count
    \/ \E f \in InFlight : initialize_sample_products_insert(f)
    \/ \E d \in ProductInputs : create_product(d)

Next == CartNext \/ OrderNext \/ CatalogNext

\* the whole service
Spec == Init /\ [][Next]_vars

\* the cart and checkout handlers on their own
SpecCart == InitCart /\ [][CartNext]_vars

\* add to cart, check out, pay and read the orders
OrderFlowNext ==
    \/ \E u \in Users, p \in ProductIdInputs, q \in QuantityInputs :
          add_to_cart_find_product(u, p, q)
    \/ \E f \in InFlight : add_to_cart_find_cart(f)
    \/ \E f \in InFlight : add_to_cart_replace(f)
    \/ \E u \in Users, a \in AddressInputs : create_order_find(u, a)
    \/ \E f \in InFlight : create_order_lookup(f)
    \/ \E f \in InFlight : create_order_insert(f)
    \/ \E f \in InFlight : create_order_delete(f)
    \/ OrderNext

SpecOrder == InitCart /\ [][OrderFlowNext]_vars

\* add_to_cart requests on their own
AddNext ==
    \/ \E u \in Users, p \in ProductIdInputs, q \in QuantityInputs :
          add_to_cart_find_product(u, p, q)
    \/ \E f \in InFlight : add_to_cart_find_cart(f)
    \/ \E f \in InFlight : add_to_cart_replace(f)

SpecAdd == InitCart /\ [][AddNext]_vars

\* the catalog handlers on their own
SpecCatalog == InitCart /\ [][CatalogNext]_vars

-----------------------------------------------------------------------------
(* The catalog store is an external collaborator: another client of the     *)
(* database can delete a product or change its price.  No handler of the    *)
(* service does, so these writes are kept out of Spec.                      *)

catalog_delete_product(product_id) ==
    /\ CanIssue
    /\ remaining' = remaining - 1
    /\ FindProduct(products, product_id) # <<>>
    /\ products' = SelectSeq(products, LAMBDA p : p.id # product_id)
    /\ UNCHANGED <<created, carts, orders, payments, req, last, checkedOut>>

catalog_update_price(product_id, price) ==
    /\ CanIssue
    /\ remaining' = remaining - 1
    /\ \E i \in DOMAIN products :
          /\ products[i].id = product_id
          /\ products[i].price # price
          /\ products' = [products EXCEPT ![i].price = price]
    /\ UNCHANGED <<created, carts, orders, payments, req, last, checkedOut>>

\* the cart and checkout handlers run one request at a time, next to a client
\* that writes the catalog
SeqNext ==
    \/ \E u \in Users : req = EmptyBag /\ get_cart_find(u)
    \/ \E f \in InFlight : get_cart_insert(f)
    \/ \E u \in Users, p \in ProductIdInputs, q \in QuantityInputs :
          req = EmptyBag /\ add_to_cart_find_product(u, p, q)
    \/ \E f \in InFlight : add_to_cart_find_cart(f)
    \/ \E f \in InFlight : add_to_cart_replace(f)
    \/ \E u \in Users, p \in ProductIdInputs :
          req = EmptyBag /\ remove_from_cart_find(u, p)
    \/ \E f \in InFlight : remove_from_cart_replace(f)
    \/ \E u \in Users, a \in AddressInputs : req = EmptyBag /\ create_order_find(u, a)
    \/ \E f \in InFlight : create_order_lookup(f)
    \/ \E f \in InFlight : create_order_insert(f)
    \/ \E f \in InFlight : create_order_delete(f)
    \/ \E p \in ProductIdInputs : catalog_delete_product(p)
    \/ \E p \in ProductIdInputs, c \in PriceInputs : catalog_update_price(p, c)

SpecSeq == InitCart /\ [][SeqNext]_vars

-----------------------------------------------------------------------------
(* Properties *)

RECURSIVE LineSum(_)
LineSum(items) ==
    IF items = <<>> THEN 0
    ELSE Head(items).price * Head(items).quantity + LineSum(Tail(items))

LinesOf(items, product_id) == {i \in DOMAIN items : items[i].product_id = product_id}

CartsOf(u) == {i \in DOMAIN carts : carts[i].user_id = u}

\* C1: every stored cart's total is the sum of price * quantity over its line
\* items, in every reachable state of the cart and checkout handlers.
CartTotalInvariant ==
    \A i \in DOMAIN carts : carts[i].total = LineSum(carts[i].items)

\* a remove_from_cart has returned and left a cart that still holds items
CartTotalWitness ==
    /\ last.op = "remove_from_cart"
    /\ last.status = 200
    /\ \E i \in CartsOf(last.user) : carts[i].items # <<>> /\ carts[i].total > 0

\* C2: an add_to_cart that runs after the previous request has returned leaves
\* exactly one line item of its product: a new one with the requested quantity
\* and the product's current price when the cart held none, and otherwise the
\* old one with the quantity raised by the requested amount and its price kept.
\* Two adds of a and b in a row so leave one line item of quantity a + b at the
\* price the first add captured.
AddMerge ==
    [][\A f \in InFlight :
         (At(f, "add_to_cart", "add_replace") /\ req' = Finish(f)) =>
           LET before == FindCart(carts, f.user)
               after  == FindCart(carts', f.user)
               old    == IF before = <<>> THEN {}
                         ELSE LinesOf(before[1].items, f.product_id)
           IN  /\ after # <<>>
               /\ Cardinality(LinesOf(after[1].items, f.product_id)) = 1
               /\ \A j \in LinesOf(after[1].items, f.product_id) :
                    IF old = {}
                    THEN /\ after[1].items[j].quantity = f.quantity
                         /\ after[1].items[j].price = f.product[1].price
                    ELSE \A i \in old :
                           /\ after[1].items[j].quantity =
                                before[1].items[i].quantity + f.quantity
                           /\ after[1].items[j].price = before[1].items[i].price]_vars

\* a second add of 2 has returned, the line item holds 2 + 2, and its price is
\* no longer the product's price
AddMergeWitness ==
    /\ last.op = "add_to_cart"
    /\ last.status = 200
    /\ \E i \in CartsOf(last.user) : \E j \in DOMAIN carts[i].items :
          /\ carts[i].items[j].quantity = 4
          /\ \E p \in DOMAIN products :
                /\ products[p].id = carts[i].items[j].product_id
                /\ products[p].price # carts[i].items[j].price

\* C3: the carts collection holds at most one cart of each user.
OneCartPerUser == \A u \in Users : Cardinality(CartsOf(u)) <= 1

\* C4: no state in which the order a create_order has inserted is stored while
\* the cart it was created from is still stored with its items.
HandoffAtomic ==
    \A f \in InFlight :
        (f.op = "create_order" /\ f.order # <<>>
           /\ \E i \in DOMAIN orders : orders[i] = f.order[1])
        => FindCart(carts, f.user) # f.cart

\* C5: a get_cart that reads the store after a create_order of its user has
\* returned, with no add_to_cart of that user issued since, returns a cart
\* with no line items and total 0.
CheckoutClearsCart ==
    (last.op = "get_cart" /\ last.after) =>
        (last.body[1].items = <<>> /\ last.body[1].total = 0)

\* C6: a create_order that finds no cart, or a cart without line items, answers
\* 400 "Cart is empty", starts nothing and leaves carts, orders and payments as
\* they were.
CheckoutEmptyFails ==
    [][\A u \in Users, a \in AddressInputs :
         (/\ create_order_find(u, a)
          /\ \A i \in CartsOf(u) : i = Min(CartsOf(u)) => carts[i].items = <<>>)
         => /\ last' = Response("create_order", u, 400, "Cart is empty", <<>>, FALSE)
            /\ req' = req
            /\ UNCHANGED <<carts, orders, payments>>]_vars

\* a create_order has failed on a cart that is stored and has no line items
CheckoutEmptyWitness ==
    /\ last.op = "create_order"
    /\ last.status = 400
    /\ CartsOf(last.user) # {}
    /\ \A i \in CartsOf(last.user) : carts[i].items = <<>>
    /\ orders = <<>>

\* C7: the catalog holds each sample product at most once.
SeedIdempotent ==
    \A i \in DOMAIN sample_products :
        Cardinality({j \in DOMAIN products : products[j].name = sample_products[i].name}) <= 1

\* C8: orders are never removed; a new order is pending; an order's status is
\* pending or paid; and a status changes only from pending to paid, in the
\* update of a process_payment for that order.
OrderStatusMachine ==
    [][/\ Len(orders') >= Len(orders)
       /\ \A i \in DOMAIN orders' :
            /\ orders'[i].status \in {"pending", "paid"}
            /\ i \notin DOMAIN orders => orders'[i].status = "pending"
            /\ (i \in DOMAIN orders /\ orders'[i].status # orders[i].status) =>
                 /\ orders[i].status = "pending"
                 /\ orders'[i].status = "paid"
                 /\ \E f \in InFlight :
                      /\ At(f, "process_payment", "pay_update")
                      /\ f.order_id = orders[i].id
                      /\ req' = Finish(f)]_vars

\* an order is paid and two payments of it are recorded
OrderStatusWitness ==
    \E i \in DOMAIN orders :
        /\ orders[i].status = "paid"
        /\ Cardinality({j \in DOMAIN payments : payments[j].order_id = orders[i].id}) >= 2

\* C9: a stored order keeps its place, id, line items, total, user id and
\* shipping address in every step; a step changes an order only when it is the
\* update of a process_payment for that very order.
OrderImmutable ==
    [][/\ Len(orders') >= Len(orders)
       /\ \A i \in DOMAIN orders :
            /\ orders'[i].id = orders[i].id
            /\ orders'[i].items = orders[i].items
            /\ orders'[i].total = orders[i].total
            /\ orders'[i].user_id = orders[i].user_id
            /\ orders'[i].shipping_address = orders[i].shipping_address
            /\ orders'[i] # orders[i] =>
                 \E f \in InFlight :
                     /\ At(f, "process_payment", "pay_update")
                     /\ f.order_id = orders[i].id
                     /\ req' = Finish(f)]_vars

\* a process_payment has returned and the order it paid holds its line items
OrderImmutableWitness ==
    /\ last.op = "process_payment"
    /\ last.status = 200
    /\ \E i \in DOMAIN orders :
          /\ orders[i].id = last.body[1].order_id
          /\ orders[i].status = "paid"
          /\ orders[i].items # <<>>
          /\ orders[i].total = LineSum(orders[i].items)

RECURSIVE Snapshot(_, _)
Snapshot(items, looked) ==
    IF items = <<>> THEN <<>>
    ELSE LET rest == Snapshot(Tail(items), Tail(looked))
         IN  IF Head(looked) = <<>> THEN rest
             ELSE << [product_id   |-> Head(items).product_id,
                      product_name |-> Head(looked)[1].name,
                      quantity     |-> Head(items).quantity,
                      price        |-> Head(items).price] >> \o rest

\* C10: the order a create_order inserts has the total of the cart it read and,
\* in cart order, one line item for each cart line item whose product the
\* lookup found, with the cart's product id, quantity and price and the name
\* the lookup returned; the other cart line items are left out.
OrderSnapshot ==
    [][\A f \in InFlight :
         (At(f, "create_order", "co_insert") /\ req' # req) =>
           /\ Len(orders') = Len(orders) + 1
           /\ orders'[Len(orders')].user_id = f.user
           /\ orders'[Len(orders')].total = f.cart[1].total
           /\ orders'[Len(orders')].items = Snapshot(f.cart[1].items, f.looked)]_vars

\* a create_order has returned an order that lacks a line item of the cart it
\* read: one item kept, and a total that is the sum over both
OrderSnapshotWitness ==
    /\ last.op = "create_order"
    /\ last.status = 200
    /\ Len(last.body[1].items) = 1
    /\ last.body[1].total # LineSum(last.body[1].items)

OrdersWithId(order_id) == {i \in DOMAIN orders : orders[i].id = order_id}

\* the step is one of the handler with frame f
Moves(f) == CopiesIn(f, req') < CopiesIn(f, req)

\* C11: a process_payment of user u for a stored order of u raises no error:
\* its lookup goes on to the insert, the insert appends one payment with that
\* order's id, the order's total and status completed, and the update leaves
\* the order paid, adds no further payment and returns that payment with 200.
PaymentResult ==
    [][/\ \A u \in Users, o \in OrderIdInputs :
            (/\ process_payment_find(u, o)
             /\ \E i \in OrdersWithId(o) : orders[i].user_id = u)
            => /\ last' = last
               /\ BagCardinality(req') = BagCardinality(req) + 1
               /\ UNCHANGED <<orders, payments>>
       /\ \A f \in InFlight :
            (At(f, "process_payment", "pay_insert") /\ Moves(f)) =>
               /\ OrdersWithId(f.order_id) # {}
               /\ \A i \in OrdersWithId(f.order_id) :
                    payments' = Append(payments,
                                       [order_id |-> orders[i].id,
                                        amount |-> orders[i].total,
                                        status |-> "completed",
                                        payment_method |-> "mock"])
               /\ last' = last
       /\ \A f \in InFlight :
            (At(f, "process_payment", "pay_update") /\ Moves(f)) =>
               /\ payments' = payments
               /\ \A i \in OrdersWithId(f.order_id) :
                    /\ orders'[i].status = "paid"
                    /\ orders'[i].user_id = f.user
                    /\ last' = Response("process_payment", f.user, 200, "",
                                        << [order_id |-> orders[i].id,
                                            amount |-> orders[i].total,
                                            status |-> "completed",
                                            payment_method |-> "mock"] >>, FALSE)]_vars

\* a process_payment has returned the one payment recorded, and its order is paid
PaymentResultWitness ==
    /\ last.op = "process_payment"
    /\ last.status = 200
    /\ payments = last.body
    /\ \E i \in DOMAIN orders :
          /\ orders[i].id = payments[1].order_id
          /\ orders[i].user_id = last.user
          /\ orders[i].status = "paid"
          /\ payments[1].amount = orders[i].total
          /\ payments[1].amount > 0

Owns(u, order_id) == \E i \in OrdersWithId(order_id) : orders[i].user_id = u

\* C12: get_orders returns orders of its caller only, and so does a get_order
\* that succeeds; a get_order or process_payment of user u for an order id that
\* is not stored, or is stored for another user, answers 404 "Order not found"
\* in its first step, goes no further, and leaves orders and payments as they
\* were.
OwnerScoping ==
    [][/\ last'.op \in {"get_orders", "get_order"} =>
            \A i \in DOMAIN last'.body : last'.body[i].user_id = last'.user
       /\ \A u \in Users, o \in OrderIdInputs :
            (get_order(u, o) /\ ~Owns(u, o)) =>
               /\ last' = Response("get_order", u, 404, "Order not found", <<>>, FALSE)
               /\ UNCHANGED <<orders, payments, req>>
       /\ \A u \in Users, o \in OrderIdInputs :
            (process_payment_find(u, o) /\ ~Owns(u, o)) =>
               /\ last' = Response("process_payment", u, 404, "Order not found", <<>>, FALSE)
               /\ UNCHANGED <<orders, payments, req>>]_vars

\* a process_payment has failed for a user who owns none of the stored orders,
\* and the stored order is still pending and unpaid
OwnerScopingWitness ==
    /\ last.op = "process_payment"
    /\ last.status = 404
    /\ orders # <<>>
    /\ payments = <<>>
    /\ \A i \in DOMAIN orders :
          orders[i].user_id # last.user /\ orders[i].status = "pending"

\* the user's cart as find_one returns it holds no line item of the product
Absent(u, product_id) ==
    /\ CartsOf(u) # {}
    /\ LinesOf(carts[Min(CartsOf(u))].items, product_id) = {}

\* C13: a remove_from_cart of a product the user's cart does not hold raises no
\* error and prepares for its write the very cart it read (same line items,
\* same total); its write answers 200 and stores that cart in place of the
\* user's cart, touching no other cart and adding none.
RemoveAbsentNoOp ==
    [][/\ \A u \in Users, p \in ProductIdInputs :
            (remove_from_cart_find(u, p) /\ Absent(u, p)) =>
               /\ carts' = carts
               /\ last' = last
               /\ \E f \in BagToSet(req') :
                     /\ At(f, "remove_from_cart", "rm_replace")
                     /\ f.user = u
                     /\ f.product_id = p
                     /\ f.cart = <<carts[Min(CartsOf(u))]>>
       /\ \A f \in InFlight :
            (At(f, "remove_from_cart", "rm_replace") /\ Moves(f)) =>
               /\ Len(carts') = Len(carts)
               /\ \A i \in DOMAIN carts :
                    carts'[i] = IF CartsOf(f.user) # {} /\ i = Min(CartsOf(f.user))
                                THEN f.cart[1] ELSE carts[i]
               /\ last' = Response("remove_from_cart", f.user, 200,
                                   "Item removed from cart", <<>>, FALSE)]_vars

\* the two requests so far were an add_to_cart and a remove_from_cart of another
\* product: the remove has returned 200 and the cart holds the added line item
RemoveAbsentWitness ==
    /\ remaining = MaxRequests - 2
    /\ req = EmptyBag
    /\ last.op = "remove_from_cart"
    /\ last.status = 200
    /\ \E i \in CartsOf(last.user) :
          carts[i].items # <<>> /\ carts[i].total = LineSum(carts[i].items)

\* C14: the write of an add_to_cart answers 200 and puts the cart the request
\* computed from its own read in place of whatever cart of the user is stored
\* (or inserts it when none is), so that of two add_to_cart requests of a user
\* that both read before either writes, the stored cart holds the later
\* write alone.
LostUpdate ==
    [][\A f \in InFlight :
         (At(f, "add_to_cart", "add_replace") /\ Moves(f)) =>
            /\ last' = Response("add_to_cart", f.user, 200, "Item added to cart", <<>>, FALSE)
            /\ FindCart(carts', f.user) = f.cart
            /\ Len(carts') = IF CartsOf(f.user) = {} THEN Len(carts) + 1 ELSE Len(carts)
            /\ \A i \in DOMAIN carts :
                 carts[i].user_id # f.user => carts'[i] = carts[i]]_vars

\* two add_to_cart requests, and no other, have been issued and have returned;
\* one cart is stored and it holds a single line item of quantity 2, the amount
\* of one request, where one request after the other leaves 4, 1 or -2 in one
\* line item or two line items
LostUpdateWitness ==
    /\ remaining = MaxRequests - 2
    /\ req = EmptyBag
    /\ last.op = "add_to_cart"
    /\ last.status = 200
    /\ Len(carts) = 1
    /\ Len(carts[1].items) = 1
    /\ carts[1].items[1].quantity = 2

\* C15: no stored cart holds two line items with the same product id, in every
\* reachable state of the cart and checkout handlers under any interleaving.
NoDuplicateProductIds ==
    \A i \in DOMAIN carts : \A j, k \in DOMAIN carts[i].items :
        carts[i].items[j].product_id = carts[i].items[k].product_id => j = k

\* an add_to_cart of a product the cart already held has returned: the cart
\* holds one line item of that product, with the two quantities added up
NoDuplicateWitness ==
    /\ last.op = "add_to_cart"
    /\ last.status = 200
    /\ \E i \in CartsOf(last.user) :
          /\ Len(carts[i].items) = 1
          /\ carts[i].items[1].quantity = 4

\* C16: every line item of every stored cart has a quantity of at least 1,
\* whatever integer quantity the add_to_cart requests carry.
PositiveQuantities ==
    \A i \in DOMAIN carts : \A j \in DOMAIN carts[i].items :
        carts[i].items[j].quantity >= 1

\* C17: an add_to_cart whose product id is the id of no product in the catalog
\* answers 404 "Product not found" in its first step, the product lookup, and
\* goes no further: no cart is read, none is created, and the stored carts,
\* orders and payments stay as they were.
AddUnknownFails ==
    [][\A u \in Users, p \in ProductIdInputs, q \in QuantityInputs :
         (/\ add_to_cart_find_product(u, p, q)
          /\ \A i \in DOMAIN products : products[i].id # p)
         => /\ last' = Response("add_to_cart", u, 404, "Product not found", <<>>, FALSE)
            /\ req' = req
            /\ UNCHANGED <<products, carts, orders, payments>>]_vars

\* an add_to_cart has failed although the catalog holds a product, and the cart
\* its user already had is stored without line items
AddUnknownWitness ==
    /\ last.op = "add_to_cart"
    /\ last.status = 404
    /\ products # <<>>
    /\ CartsOf(last.user) # {}
    /\ \A i \in CartsOf(last.user) : carts[i].items = <<>> /\ carts[i].total = 0

\* C18: a remove_from_cart that finds no cart of its user answers 404 "Cart not
\* found" and writes nothing; and when a create_order of the user has deleted
\* the cart between the request's read and its write, the write changes no
\* cart and no cart of the user is stored after it.
RemoveNeverCreates ==
    [][/\ \A u \in Users, p \in ProductIdInputs :
            (remove_from_cart_find(u, p) /\ CartsOf(u) = {}) =>
               /\ last' = Response("remove_from_cart", u, 404, "Cart not found", <<>>, FALSE)
               /\ req' = req
               /\ carts' = carts
       /\ \A f \in InFlight :
            (/\ At(f, "remove_from_cart", "rm_replace")
             /\ Moves(f)
             /\ ~f.after
             /\ checkedOut[f.user]) =>
               /\ carts' = carts
               /\ \A i \in DOMAIN carts' : carts'[i].user_id # f.user]_vars

PaymentsOf(order) ==
    {j \in DOMAIN payments :
        /\ payments[j].order_id = order.id
        /\ payments[j].status = "completed"
        /\ payments[j].amount = order.total}

\* C19: every stored order whose status is paid has at least one payment
\* recorded with its id, status completed and its total as amount, in every
\* reachable state under any interleaving of the payment and order handlers.
PaidImpliesPayment ==
    \A i \in DOMAIN orders :
        orders[i].status = "paid" => PaymentsOf(orders[i]) # {}

\* no request is in flight, an order is paid, and every payment recorded is a
\* completed payment of that order's total
PaidImpliesPaymentWitness ==
    /\ req = EmptyBag
    /\ payments # <<>>
    /\ \E i \in DOMAIN orders :
          /\ orders[i].status = "paid"
          /\ PaymentsOf(orders[i]) = DOMAIN payments

\* C20: over the whole service, where no handler deletes or changes a product,
\* every stored order has at least one line item and a total equal to the sum
\* of price * quantity over its own line items, and the order a create_order
\* has inserted has, in cart order, one line item for each line item of the
\* cart the request read, with that line item's product id, quantity and price.
OrderSelfConsistent ==
    /\ \A i \in DOMAIN orders :
          /\ orders[i].items # <<>>
          /\ orders[i].total = LineSum(orders[i].items)
    /\ \A f \in InFlight :
          (f.op = "create_order" /\ f.order # <<>>) =>
             /\ \E i \in DOMAIN orders :
                   /\ orders[i].id = f.order[1].id
                   /\ orders[i].items = f.order[1].items
                   /\ orders[i].total = f.order[1].total
             /\ Len(f.order[1].items) = Len(f.cart[1].items)
             /\ \A k \in DOMAIN f.cart[1].items :
                   /\ f.order[1].items[k].product_id = f.cart[1].items[k].product_id
                   /\ f.order[1].items[k].quantity = f.cart[1].items[k].quantity
                   /\ f.order[1].items[k].price = f.cart[1].items[k].price

\* an order made from a cart of two line items is stored with both
OrderSelfConsistentWitness ==
    \E i \in DOMAIN orders :
        /\ Len(orders[i].items) = 2
        /\ orders[i].items[1].product_id # orders[i].items[2].product_id
        /\ orders[i].total = LineSum(orders[i].items)

====
